---- MODULE Spec2Model ----
(***************************************************************************)
(* Model of finetune_gpt_neox_20b_belle.py: a straight-line script that    *)
(* loads GPT-NeoX-20B in 8-bit, injects LoRA adapters, tokenizes a         *)
(* dataset with prompt-span label masking, trains and saves the adapter.   *)
(*                                                                         *)
(* Text is a sequence of words and the tokenizer maps one word to one      *)
(* token id of Vocab.  Parameter names are sequences of the pieces the     *)
(* dotted/underscored name splits into, so that Python's substring test    *)
(* `"layer_norm" in name` is a contiguous-subsequence test.                *)
(***************************************************************************)
EXTENDS Integers, Sequences, FiniteSets, TLC

VARIABLES
    pc,                 \* the statement the script is about to run
    failedAt,           \* the step whose exception ended the process, or "none"
    error,              \* the uncaught exception: [type, guidance]
    trace,              \* the steps that have completed, in order
    import_structure,   \* transformers._import_structure, as far as line 11 reads it
    WORLD_SIZE,         \* os.environ["WORLD_SIZE"]: <<>> when unset, else <<n>>
    GRADIENT_ACCUMULATION_STEPS,
    ddp,
    is_loaded_in_8bit,  \* getattr(model, "is_loaded_in_8bit", False)
    adds_eos,           \* whether the loaded tokenizer honours add_eos_token=True
    params,             \* model.named_parameters(): set of [name, ndim, dtype, requires_grad]
    loop_before,        \* params as the freeze loop (lines 77-84) found them
    data,               \* the dataset record read by load_dataset, or NoData
    train_data,         \* the mapped (tokenized) record, or NoData
    trainer_args,       \* the TrainingArguments handed to the Trainer, or NoData
    overridden,         \* model.state_dict has been replaced (lines 200-203)
    compiled,           \* model was rebound to torch.compile(model)
    checkpoints,        \* the state-dicts (sets of keys) the trainer wrote to OUTPUT_DIR
    saved               \* <<keys>> once the final save_pretrained has written them

vars == <<pc, failedAt, error, trace, import_structure, WORLD_SIZE,
          GRADIENT_ACCUMULATION_STEPS, ddp, is_loaded_in_8bit, adds_eos, params,
          loop_before, data, train_data, trainer_args, overridden, compiled,
          checkpoints, saved>>

(***************************************************************************)
(* Bounds of the model.                                                    *)
(***************************************************************************)
MaxSlack == 2       \* text lengths lie within MaxSlack of 0 and of the cutoff
MaxWorldSize == 3   \* WORLD_SIZE ranges over unset, 1..MaxWorldSize
MaxCheckpoints == 1 \* checkpoints the trainer writes during one run

(***************************************************************************)
(* Program constants.                                                      *)
(***************************************************************************)
MICRO_BATCH_SIZE == 96
BATCH_SIZE == 96 * 2
CUTOFF_LEN == 256
IGNORE_INDEX == -100
pad_token_id == 0
TARGET_MODULES == { <<"query", "_", "key", "_", "value">>, <<"xxx">> }
\* LoraConfig(bias="all") in place of bias="none"
LoraBias_all == "all"
LoraBias == "none"

NoData == [none |-> TRUE]

Min(a, b) == IF a < b THEN a ELSE b
Max(a, b) == IF a > b THEN a ELSE b

(***************************************************************************)
(* Python list operations used by the script.                              *)
(***************************************************************************)
\* [v] * n
PyRepeat(v, n) == [i \in 1..Max(n, 0) |-> v]
\* s[n:]
PySliceFrom(s, n) ==
    LET start == IF n < 0 THEN Max(Len(s) + n, 0) ELSE Min(n, Len(s))
    IN  SubSeq(s, start + 1, Len(s))
\* s[:-1]
PyDropLast(s) == SubSeq(s, 1, Len(s) - 1)
\* needle in name (contiguous pieces)
Contains(name, needle) ==
    \E i \in 0..(Len(name) - Len(needle)) :
        SubSeq(name, i + 1, i + Len(needle)) = needle
\* name.endswith(suffix)
EndsWith(name, suffix) ==
    /\ Len(name) >= Len(suffix)
    /\ SubSeq(name, Len(name) - Len(suffix) + 1, Len(name)) = suffix

(***************************************************************************)
(* The tokenizer: EleutherAI/gpt-neox-20b, whose <|endoftext|> has id 0.   *)
(***************************************************************************)
Vocab == << "<|endoftext|>", "Below", "is", "an", "instruction", "that",
            "describes", "a", "task.", "Write", "response", "appropriately",
            "completes", "the", "request.", "###", "Instruction:", "Response:",
            "x", "y" >>
TokenId(w) == CHOOSE i \in 0..(Len(Vocab) - 1) : Vocab[i + 1] = w
eos_token_id == TokenId("<|endoftext|>")

\* tokenizer(prompt, truncation=True, max_length=max_length[, padding="max_length"])["input_ids"]
tokenizer(prompt, max_length, padding) ==
    LET ids     == [i \in 1..Len(prompt) |-> TokenId(prompt[i])]
        special == IF adds_eos THEN <<eos_token_id>> ELSE <<>>
        room    == max_length - Len(special)
        body    == SubSeq(ids, 1, Min(Len(ids), room)) \o special
    IN  IF padding
        THEN body \o [i \in 1..(max_length - Len(body)) |-> pad_token_id]
        ELSE body

(***************************************************************************)
(* generate_and_tokenize_prompt (lines 128-162).                           *)
(***************************************************************************)
PromptHead == << "Below", "is", "an", "instruction", "that", "describes", "a",
                 "task.", "Write", "a", "response", "that", "appropriately",
                 "completes", "the", "request.", "###", "Instruction:" >>
PromptTail == << "###", "Response:" >>

user_prompt(data_point) == PromptHead \o data_point.input \o PromptTail

len_user_prompt_tokens(data_point) ==
    Len(tokenizer(user_prompt(data_point), CUTOFF_LEN + 1, FALSE)) - 1

\* the same call without padding="max_length"
full_tokens_unpadded(data_point) ==
    PyDropLast(tokenizer(user_prompt(data_point) \o data_point.target,
                         CUTOFF_LEN + 1, FALSE))

full_tokens(data_point) ==
    PyDropLast(tokenizer(user_prompt(data_point) \o data_point.target,
                         CUTOFF_LEN + 1, TRUE))

generate_and_tokenize_prompt(data_point) ==
    [ input_ids      |-> full_tokens(data_point),
      labels         |-> PyRepeat(IGNORE_INDEX, len_user_prompt_tokens(data_point))
                         \o PySliceFrom(full_tokens(data_point),
                                        len_user_prompt_tokens(data_point)),
      attention_mask |-> PyRepeat(1, Len(full_tokens(data_point))) ]

(***************************************************************************)
(* The model's parameters (lines 66-96).                                   *)
(***************************************************************************)
\* named_parameters() of the loaded GPTNeoXForCausalLM, one of each sort
BaseParameters ==
    { [name |-> <<"gpt", "_", "neox", ".", "embed", "_", "in", ".", "weight">>,
       ndim |-> 2, linear |-> FALSE],
      [name |-> <<"gpt", "_", "neox", ".", "layers", ".", "0", ".", "input", "_",
                  "layernorm", ".", "weight">>,
       ndim |-> 1, linear |-> FALSE],
      [name |-> <<"gpt", "_", "neox", ".", "layers", ".", "0", ".", "attention", ".",
                  "query", "_", "key", "_", "value", ".", "weight">>,
       ndim |-> 2, linear |-> TRUE],
      [name |-> <<"gpt", "_", "neox", ".", "layers", ".", "0", ".", "attention", ".",
                  "query", "_", "key", "_", "value", ".", "bias">>,
       ndim |-> 1, linear |-> FALSE],
      [name |-> <<"gpt", "_", "neox", ".", "final", "_", "layer", "_", "norm", ".",
                  "weight">>,
       ndim |-> 1, linear |-> FALSE],
      [name |-> <<"gpt", "_", "neox", ".", "final", "_", "layer", "_", "norm", ".",
                  "bias">>,
       ndim |-> 1, linear |-> FALSE],
      [name |-> <<"embed", "_", "out", ".", "weight">>,
       ndim |-> 2, linear |-> FALSE] }

\* AutoModelForCausalLM.from_pretrained(..., load_in_8bit=True): linear weights
\* become int8 (never trainable), everything else is float16
from_pretrained(in8bit) ==
    { [name          |-> b.name,
       ndim          |-> b.ndim,
       dtype         |-> IF in8bit /\ b.linear THEN "int8" ELSE "float16",
       requires_grad |-> ~(in8bit /\ b.linear)] : b \in BaseParameters }

IsLayerNorm1d(param) ==
    param.ndim = 1 /\ Contains(param.name, <<"layer", "_", "norm">>)

\* peft.prepare_model_for_int8_training: freezes, and casts the 1-d layer norms
\* of an 8-bit model to float32
prepare_model_for_int8_training(P) ==
    { [param EXCEPT !.requires_grad = FALSE,
                    !.dtype = IF is_loaded_in_8bit /\ IsLayerNorm1d(param)
                              THEN "float32" ELSE @] : param \in P }

\* the loop of lines 77-84
FreezeLoop(P) ==
    { [param EXCEPT !.requires_grad = FALSE,
                    !.dtype = IF is_loaded_in_8bit /\ IsLayerNorm1d(param)
                              THEN "float16" ELSE @] : param \in P }

PeftPrefix == <<"base", "_", "model", ".", "model", ".">>
ModuleOf(name) == SubSeq(name, 1, Len(name) - 2)
IsTarget(module) == \E t \in TARGET_MODULES : EndsWith(module, t)
IsLoraKey(name) == Contains(name, <<"lora", "_">>)
IsBiasKey(name) == Contains(name, <<"bias">>)

\* the low-rank matrices LoraModel adds to every targeted module
LoraParameters(P) ==
    { [name          |-> PeftPrefix \o ModuleOf(param.name)
                         \o <<".", "lora", "_", ab, ".", "weight">>,
       ndim          |-> 2,
       dtype         |-> "float32",
       requires_grad |-> TRUE] :
      <<param, ab>> \in { q \in P \X {"A", "B"} :
                           /\ EndsWith(q[1].name, <<".", "weight">>)
                           /\ IsTarget(ModuleOf(q[1].name)) } }

\* peft.mark_only_lora_as_trainable(model, bias)
mark_only_lora_as_trainable(P, bias) ==
    { [param EXCEPT !.requires_grad =
          IF bias = "all" /\ IsBiasKey(param.name) THEN TRUE
          ELSE IF IsLoraKey(param.name) THEN @ ELSE FALSE] : param \in P }

\* get_peft_model(model, LoraConfig(..., bias=LoraBias))
get_peft_model(P) ==
    mark_only_lora_as_trainable(
        { [param EXCEPT !.name = PeftPrefix \o @] : param \in P }
            \union LoraParameters(P),
        LoraBias)

\* peft.get_peft_model_state_dict(model, state_dict) for the configured bias mode
get_peft_model_state_dict(state_dict) ==
    { k \in state_dict : IsLoraKey(k) \/ (LoraBias = "all" /\ IsBiasKey(k)) }

\* the bound method saved at line 200
old_state_dict == { param.name : param \in params }
\* an override that passes the full state-dict through
new_state_dict_unfiltered == old_state_dict
\* the lambda installed at lines 201-203
new_state_dict == get_peft_model_state_dict(old_state_dict)
\* model.state_dict() as the trainer's checkpointing calls it
state_dict == IF overridden THEN new_state_dict ELSE old_state_dict

(***************************************************************************)
(* The script, statement by statement.                                     *)
(***************************************************************************)
Steps == << "assert", "config", "load_model", "prepare_int8", "freeze",
            "get_peft_model", "load_dataset", "map", "trainer", "state_dict",
            "compile", "train", "save" >>
\* the statements that call into a library and so can raise
LibrarySteps == { "load_model", "prepare_int8", "get_peft_model", "load_dataset",
                  "map", "trainer", "compile", "train", "save" }

NoError == [type |-> "none", guidance |-> FALSE]

\* int(os.environ.get("WORLD_SIZE", 1))
world_size == IF WORLD_SIZE = <<>> THEN 1 ELSE WORLD_SIZE[1]

TextLengths ==
    LET template == Len(PromptHead) + Len(PromptTail)
    IN  (0..MaxSlack) \union
        { n \in (CUTOFF_LEN - template - MaxSlack)..(CUTOFF_LEN - template + MaxSlack) :
            n >= 0 }
Text(word, n) == [i \in 1..n |-> word]

Init ==
    /\ pc = "assert"
    /\ failedAt = "none"
    /\ error = NoError
    /\ trace = <<>>
    /\ import_structure \in { "no models.llama", "no LlamaTokenizer", "LlamaTokenizer" }
    /\ WORLD_SIZE \in { <<>> } \union { <<n>> : n \in 1..MaxWorldSize }
    /\ GRADIENT_ACCUMULATION_STEPS = 0
    /\ ddp = FALSE
    /\ is_loaded_in_8bit = FALSE
    /\ adds_eos = FALSE
    /\ params = {}
    /\ loop_before = {}
    /\ data = NoData
    /\ train_data = NoData
    /\ trainer_args = NoData
    /\ overridden = FALSE
    /\ compiled = FALSE
    /\ checkpoints = <<>>
    /\ saved = <<>>

\* lines 10-12: the subscript raises KeyError when the key is missing, the
\* assert raises AssertionError with the guidance when the list lacks the name
ImportAssert ==
    /\ pc = "assert"
    /\ IF import_structure = "LlamaTokenizer"
       THEN /\ pc' = "config"
            /\ trace' = Append(trace, "assert")
            /\ UNCHANGED <<failedAt, error>>
       ELSE /\ pc' = "failed"
            /\ failedAt' = "assert"
            /\ error' = IF import_structure = "no models.llama"
                        THEN [type |-> "KeyError", guidance |-> FALSE]
                        ELSE [type |-> "AssertionError", guidance |-> TRUE]
            /\ UNCHANGED trace
    /\ UNCHANGED <<import_structure, WORLD_SIZE, GRADIENT_ACCUMULATION_STEPS, ddp,
                   is_loaded_in_8bit, adds_eos, params, loop_before, data,
                   train_data, trainer_args, overridden, compiled, checkpoints,
                   saved>>

\* lines 41-64
Config ==
    /\ pc = "config"
    /\ ddp' = (world_size # 1)
    /\ GRADIENT_ACCUMULATION_STEPS' =
          IF world_size # 1
          THEN (BATCH_SIZE \div MICRO_BATCH_SIZE) \div world_size
          ELSE BATCH_SIZE \div MICRO_BATCH_SIZE
    /\ pc' = "load_model"
    /\ trace' = Append(trace, "config")
    /\ UNCHANGED <<failedAt, error, import_structure, WORLD_SIZE, is_loaded_in_8bit,
                   adds_eos, params, loop_before, data, train_data, trainer_args,
                   overridden, compiled, checkpoints, saved>>

\* lines 66-72
LoadModel ==
    /\ pc = "load_model"
    /\ \E in8bit \in BOOLEAN, eos \in BOOLEAN :
          /\ is_loaded_in_8bit' = in8bit
          /\ adds_eos' = eos
          /\ params' = from_pretrained(in8bit)
    /\ pc' = "prepare_int8"
    /\ trace' = Append(trace, "load_model")
    /\ UNCHANGED <<failedAt, error, import_structure, WORLD_SIZE,
                   GRADIENT_ACCUMULATION_STEPS, ddp, loop_before, data, train_data,
                   trainer_args, overridden, compiled, checkpoints, saved>>

\* line 74
PrepareInt8 ==
    /\ pc = "prepare_int8"
    /\ params' = prepare_model_for_int8_training(params)
    /\ pc' = "freeze"
    /\ trace' = Append(trace, "prepare_int8")
    /\ UNCHANGED <<failedAt, error, import_structure, WORLD_SIZE,
                   GRADIENT_ACCUMULATION_STEPS, ddp, is_loaded_in_8bit, adds_eos,
                   loop_before, data, train_data, trainer_args, overridden, compiled,
                   checkpoints, saved>>

\* lines 77-84
Freeze ==
    /\ pc = "freeze"
    /\ loop_before' = params
    /\ params' = FreezeLoop(params)
    /\ pc' = "get_peft_model"
    /\ trace' = Append(trace, "freeze")
    /\ UNCHANGED <<failedAt, error, import_structure, WORLD_SIZE,
                   GRADIENT_ACCUMULATION_STEPS, ddp, is_loaded_in_8bit, adds_eos,
                   data, train_data, trainer_args, overridden, compiled, checkpoints,
                   saved>>

\* lines 86-96
GetPeftModel ==
    /\ pc = "get_peft_model"
    /\ params' = get_peft_model(params)
    /\ pc' = "load_dataset"
    /\ trace' = Append(trace, "get_peft_model")
    /\ UNCHANGED <<failedAt, error, import_structure, WORLD_SIZE,
                   GRADIENT_ACCUMULATION_STEPS, ddp, is_loaded_in_8bit, adds_eos,
                   loop_before, data, train_data, trainer_args, overridden, compiled,
                   checkpoints, saved>>

\* lines 98-99
LoadDataset ==
    /\ pc = "load_dataset"
    /\ \E i \in TextLengths, t \in TextLengths :
          data' = [input |-> Text("x", i), target |-> Text("y", t)]
    /\ pc' = "map"
    /\ trace' = Append(trace, "load_dataset")
    /\ UNCHANGED <<failedAt, error, import_structure, WORLD_SIZE,
                   GRADIENT_ACCUMULATION_STEPS, ddp, is_loaded_in_8bit, adds_eos,
                   params, loop_before, train_data, trainer_args, overridden,
                   compiled, checkpoints, saved>>

\* lines 165-173
MapDataset ==
    /\ pc = "map"
    /\ train_data' = generate_and_tokenize_prompt(data)
    /\ pc' = "trainer"
    /\ trace' = Append(trace, "map")
    /\ UNCHANGED <<failedAt, error, import_structure, WORLD_SIZE,
                   GRADIENT_ACCUMULATION_STEPS, ddp, is_loaded_in_8bit, adds_eos,
                   params, loop_before, data, trainer_args, overridden, compiled,
                   checkpoints, saved>>

\* lines 175-198
ConfigureTrainer ==
    /\ pc = "trainer"
    /\ trainer_args' =
          [ per_device_train_batch_size |-> MICRO_BATCH_SIZE,
            gradient_accumulation_steps |-> GRADIENT_ACCUMULATION_STEPS,
            ddp_find_unused_parameters  |-> IF ddp THEN "False" ELSE "None" ]
    /\ pc' = "state_dict"
    /\ trace' = Append(trace, "trainer")
    /\ UNCHANGED <<failedAt, error, import_structure, WORLD_SIZE,
                   GRADIENT_ACCUMULATION_STEPS, ddp, is_loaded_in_8bit, adds_eos,
                   params, loop_before, data, train_data, overridden, compiled,
                   checkpoints, saved>>

\* lines 200-203
OverrideStateDict ==
    /\ pc = "state_dict"
    /\ overridden' = TRUE
    /\ pc' = "compile"
    /\ trace' = Append(trace, "state_dict")
    /\ UNCHANGED <<failedAt, error, import_structure, WORLD_SIZE,
                   GRADIENT_ACCUMULATION_STEPS, ddp, is_loaded_in_8bit, adds_eos,
                   params, loop_before, data, train_data, trainer_args, compiled,
                   checkpoints, saved>>

\* lines 205-206: the torch version and the platform decide
Compile ==
    /\ pc = "compile"
    /\ compiled' \in BOOLEAN
    /\ pc' = "train"
    /\ trace' = Append(trace, "compile")
    /\ UNCHANGED <<failedAt, error, import_structure, WORLD_SIZE,
                   GRADIENT_ACCUMULATION_STEPS, ddp, is_loaded_in_8bit, adds_eos,
                   params, loop_before, data, train_data, trainer_args, overridden,
                   checkpoints, saved>>

\* line 209, while it runs: every save_steps the trainer writes model.state_dict()
TrainCheckpoint ==
    /\ pc = "train"
    /\ Len(checkpoints) < MaxCheckpoints
    /\ checkpoints' = Append(checkpoints, state_dict)
    /\ UNCHANGED <<pc, failedAt, error, trace, import_structure, WORLD_SIZE,
                   GRADIENT_ACCUMULATION_STEPS, ddp, is_loaded_in_8bit, adds_eos,
                   params, loop_before, data, train_data, trainer_args, overridden,
                   compiled, saved>>

\* line 209 returns
TrainDone ==
    /\ pc = "train"
    /\ pc' = "save"
    /\ trace' = Append(trace, "train")
    /\ UNCHANGED <<failedAt, error, import_structure, WORLD_SIZE,
                   GRADIENT_ACCUMULATION_STEPS, ddp, is_loaded_in_8bit, adds_eos,
                   params, loop_before, data, train_data, trainer_args, overridden,
                   compiled, checkpoints, saved>>

\* the save statement placed so that it can run while training has not returned
SaveBeforeTrainReturns ==
    /\ pc \in {"train", "save"}
    /\ saved' = <<get_peft_model_state_dict(state_dict)>>
    /\ pc' = "done"
    /\ trace' = Append(trace, "save")
    /\ UNCHANGED <<failedAt, error, import_structure, WORLD_SIZE,
                   GRADIENT_ACCUMULATION_STEPS, ddp, is_loaded_in_8bit, adds_eos,
                   params, loop_before, data, train_data, trainer_args, overridden,
                   compiled, checkpoints>>

\* lines 211-213: PeftModel.save_pretrained writes
\* get_peft_model_state_dict(model, model.state_dict())
Save ==
    /\ pc = "save"
    /\ saved' = <<get_peft_model_state_dict(state_dict)>>
    /\ pc' = "done"
    /\ trace' = Append(trace, "save")
    /\ UNCHANGED <<failedAt, error, import_structure, WORLD_SIZE,
                   GRADIENT_ACCUMULATION_STEPS, ddp, is_loaded_in_8bit, adds_eos,
                   params, loop_before, data, train_data, trainer_args, overridden,
                   compiled, checkpoints>>

StepAfter(step) ==
    LET i == CHOOSE k \in 1..Len(Steps) : Steps[k] = step
    IN  IF i < Len(Steps) THEN Steps[i + 1] ELSE "done"

\* a library call raises inside a try/except that swallows the exception
RaiseSwallowed ==
    /\ pc \in LibrarySteps
    /\ pc' = StepAfter(pc)
    /\ failedAt' = pc
    /\ error' = [type |-> "LibraryError", guidance |-> FALSE]
    /\ UNCHANGED <<trace, import_structure, WORLD_SIZE, GRADIENT_ACCUMULATION_STEPS,
                   ddp, is_loaded_in_8bit, adds_eos, params, loop_before, data,
                   train_data, trainer_args, overridden, compiled, checkpoints,
                   saved>>

\* a library call raises: nothing catches it, the interpreter exits
Raise ==
    /\ pc \in LibrarySteps
    /\ pc' = "failed"
    /\ failedAt' = pc
    /\ error' = [type |-> "LibraryError", guidance |-> FALSE]
    /\ UNCHANGED <<trace, import_structure, WORLD_SIZE, GRADIENT_ACCUMULATION_STEPS,
                   ddp, is_loaded_in_8bit, adds_eos, params, loop_before, data,
                   train_data, trainer_args, overridden, compiled, checkpoints,
                   saved>>

Next ==
    \/ ImportAssert
    \/ Config
    \/ LoadModel
    \/ PrepareInt8
    \/ Freeze
    \/ GetPeftModel
    \/ LoadDataset
    \/ MapDataset
    \/ ConfigureTrainer
    \/ OverrideStateDict
    \/ Compile
    \/ TrainCheckpoint
    \/ TrainDone
    \/ Save
    \/ Raise

Spec == Init /\ [][Next]_vars

(***************************************************************************)
(* Properties.                                                             *)
(***************************************************************************)
InTrace(step) == \E i \in 1..Len(trace) : trace[i] = step

\* the number of leading positions of input_ids that hold instruction-prefix tokens
PrefixSpan == Min(Len(user_prompt(data)), CUTOFF_LEN)
\* the last position of input_ids that holds a token of the response, its
\* terminating end-of-sequence token included
ResponseEnd ==
    Min(Len(user_prompt(data)) + Len(data.target) + (IF adds_eos THEN 1 ELSE 0),
        CUTOFF_LEN)

\* C1: every tokenized record has input_ids, labels and attention_mask of
\* exactly CUTOFF_LEN entries, whatever the lengths of input and target.
C1_FixedLength ==
    train_data # NoData =>
        /\ Len(train_data.input_ids) = CUTOFF_LEN
        /\ Len(train_data.labels) = CUTOFF_LEN
        /\ Len(train_data.attention_mask) = CUTOFF_LEN

\* a record whose instruction prefix alone exceeds the cutoff has been tokenized
C1_Witness ==
    /\ train_data # NoData
    /\ Len(user_prompt(data)) > CUTOFF_LEN

\* C2: labels are -100 on exactly the positions the instruction prefix occupies
\* in input_ids and equal input_ids everywhere else, with or without an
\* end-of-sequence token appended by the tokenizer.
C2_MasksExactlyPrefix ==
    train_data # NoData =>
        /\ Len(train_data.labels) = Len(train_data.input_ids)
        /\ \A i \in 1..Len(train_data.labels) :
              train_data.labels[i] =
                 IF i <= PrefixSpan THEN IGNORE_INDEX ELSE train_data.input_ids[i]

\* C3: every position whose label is not -100 holds a token of the response:
\* no instruction-prefix position and no padding position carries a label.
C3_LossOnlyOnResponse ==
    train_data # NoData =>
        \A i \in 1..Len(train_data.labels) :
            train_data.labels[i] # IGNORE_INDEX =>
                (PrefixSpan < i /\ i <= ResponseEnd)

\* C4: the steps run in the fixed order, each at most once, each after the
\* previous one completed; the final save happens only after training returned.
C4_LinearOrder ==
    /\ Len(trace) <= Len(Steps)
    /\ \A i \in 1..Len(trace) : trace[i] = Steps[i]
    /\ pc \notin {"failed", "done"} => pc = Steps[Len(trace) + 1]
    /\ pc = "done" => trace = Steps
    /\ checkpoints # <<>> => InTrace("compile")
    /\ saved # <<>> => InTrace("train")

\* the script ran to its end and saved
C4_Witness ==
    /\ pc = "done"
    /\ saved # <<>>
    /\ trace = Steps

\* C5: with the LLaMA tokenizer entry absent the script stops at the assertion
\* with the reinstall guidance, before anything is loaded, read or written.
C5_AssertGuidance ==
    (import_structure # "LlamaTokenizer" /\ pc # "assert") =>
        /\ pc = "failed"
        /\ failedAt = "assert"
        /\ error = [type |-> "AssertionError", guidance |-> TRUE]
        /\ params = {}
        /\ data = NoData
        /\ checkpoints = <<>>
        /\ saved = <<>>

\* C6: a failed step ends the process: no later step has run, the failed step
\* is not run again, nothing is enabled any more and the final save is absent.
C6_FailureTerminates ==
    failedAt # "none" =>
        /\ pc = "failed"
        /\ ~ENABLED Next
        /\ ~InTrace(failedAt)
        /\ Steps[Len(trace) + 1] = failedAt
        /\ saved = <<>>

\* training failed after the trainer had written a checkpoint
C6_Witness ==
    /\ failedAt = "train"
    /\ checkpoints # <<>>
    /\ saved = <<>>

BaseKeys == { PeftPrefix \o b.name : b \in BaseParameters }
OnlyAdapter(keys) == \A k \in keys : IsLoraKey(k) /\ k \notin BaseKeys

\* C7: once the override is installed every state-dict the model yields, every
\* checkpoint and the final save hold adapter weights only.
C7_AdapterOnly ==
    /\ overridden => OnlyAdapter(state_dict)
    /\ \A i \in 1..Len(checkpoints) : OnlyAdapter(checkpoints[i])
    /\ saved # <<>> => OnlyAdapter(saved[1])

\* a checkpoint and the final save were written, and they are not empty
C7_Witness ==
    /\ checkpoints # <<>>
    /\ checkpoints[1] # {}
    /\ saved # <<>>
    /\ saved[1] # {}

\* C8: after the freeze loop no base parameter is trainable, and from adapter
\* injection on the trainable parameters are exactly those the injection added.
C8_BaseFrozen ==
    /\ (InTrace("freeze") /\ ~InTrace("get_peft_model")) =>
          \A param \in params : ~param.requires_grad
    /\ InTrace("get_peft_model") =>
          \A param \in params : param.requires_grad <=> param.name \notin BaseKeys

\* training is starting on an 8-bit model that has trainable adapter parameters
C8_Witness ==
    /\ pc = "train"
    /\ is_loaded_in_8bit
    /\ \E param \in params : param.requires_grad

\* C9: on an 8-bit model the loop leaves every 1-d layer_norm parameter in
\* fp32 and changes no other dtype; otherwise it changes no dtype at all.
C9_LayerNormFp32 ==
    (InTrace("freeze") /\ ~InTrace("get_peft_model")) =>
        \A param \in params : \A before \in loop_before :
            before.name = param.name =>
                param.dtype = IF is_loaded_in_8bit /\ IsLayerNorm1d(param)
                              THEN "float32" ELSE before.dtype

\* C10: the accumulation count given to the trainer is at least 1 and keeps
\* MICRO_BATCH_SIZE * count * world_size equal to BATCH_SIZE.
C10_BatchPreserved ==
    trainer_args # NoData =>
        /\ trainer_args.gradient_accumulation_steps >= 1
        /\ MICRO_BATCH_SIZE * trainer_args.gradient_accumulation_steps * world_size
              = BATCH_SIZE
        /\ world_size = 1 =>
              trainer_args.gradient_accumulation_steps = BATCH_SIZE \div MICRO_BATCH_SIZE

====
